---------------------------- MODULE Spec2Model ----------------------------
(***************************************************************************)
(* A model of pylgcpd's landmark-guided EM point-cloud registration:      *)
(* EMRegistration (src/pylgcpd/emregistration.py) and AffineRegistration  *)
(* (src/pylgcpd/affine_registration.py).                                   *)
(*                                                                         *)
(* Numbers.  The program computes in IEEE double precision.  The model    *)
(* computes in decimal fixed point: a finite number is <<n, 1>>, standing *)
(* for n / Scale, and every operation rounds its exact result toward zero *)
(* to that grid.  The non-finite doubles are kept: NaN is <<0, 0>>, +inf  *)
(* is <<1, 0>> and -inf is <<-1, 0>>, with IEEE's rules for them (0/0 is  *)
(* NaN, every comparison with NaN is false, ...).  exp underflows to 0    *)
(* as it does in doubles, only sooner.                                     *)
(*                                                                         *)
(* Arrays.  An array is [shape, data]: shape is numpy's shape tuple and   *)
(* data the sequence of its rows (each a sequence of numbers).            *)
(***************************************************************************)
EXTENDS Integers, Sequences, FiniteSets, TLC

(***************************************************************************)
(* Fixed-point numbers                                                      *)
(***************************************************************************)
Scale == 100 * 100

Fin(n) == <<n, 1>>
NaN == <<0, 0>>
PInf == <<1, 0>>
NInf == <<-1, 0>>
Zero == Fin(0)
One == Fin(Scale)
Num(i) == Fin(i * Scale)

IsFinite(a) == a[2] = 1
IsNaN(a) == a = NaN
Abs(n) == IF n < 0 THEN -n ELSE n
Sgn(n) == IF n < 0 THEN -1 ELSE IF n > 0 THEN 1 ELSE 0

\* a / b for integers, rounded toward zero (b # 0)
TDiv(a, b) == Sgn(a) * Sgn(b) * (Abs(a) \div Abs(b))

\* a * b / Scale for non-negative integers, rounded down, without overflow
\* of the intermediate product
MulNat(a, b) ==
    LET a1 == a \div Scale
        a0 == a % Scale
        b1 == b \div Scale
        b0 == b % Scale
    IN  a1 * b + a0 * b1 + ((a0 * b0) \div Scale)

\* a * Scale / b for non-negative integers (b > 0), rounded down, by long
\* division in two steps of 100
DivNat(a, b) ==
    LET q1 == a \div b
        r1 == a % b
        q2 == (r1 * 100) \div b
        r2 == (r1 * 100) % b
        q3 == (r2 * 100) \div b
    IN  q1 * Scale + q2 * 100 + q3

Neg(a) == <<-a[1], a[2]>>

Add(a, b) ==
    IF IsFinite(a) /\ IsFinite(b) THEN Fin(a[1] + b[1])
    ELSE IF IsNaN(a) \/ IsNaN(b) THEN NaN
    ELSE IF IsFinite(a) THEN b
    ELSE IF IsFinite(b) THEN a
    ELSE IF a = b THEN a ELSE NaN

Sub(a, b) == Add(a, Neg(b))

Mul(a, b) ==
    IF IsFinite(a) /\ IsFinite(b)
    THEN Fin(Sgn(a[1]) * Sgn(b[1]) * MulNat(Abs(a[1]), Abs(b[1])))
    ELSE IF IsNaN(a) \/ IsNaN(b) THEN NaN
    ELSE IF a[1] = 0 \/ b[1] = 0 THEN NaN
    ELSE <<Sgn(a[1]) * Sgn(b[1]), 0>>

Div(a, b) ==
    IF IsNaN(a) \/ IsNaN(b) THEN NaN
    ELSE IF IsFinite(a) /\ IsFinite(b)
    THEN IF b[1] = 0
         THEN (IF a[1] = 0 THEN NaN ELSE <<Sgn(a[1]), 0>>)
         ELSE Fin(Sgn(a[1]) * Sgn(b[1]) * DivNat(Abs(a[1]), Abs(b[1])))
    ELSE IF IsFinite(a) THEN Zero
    ELSE IF IsFinite(b) THEN <<a[1] * (IF b[1] < 0 THEN -1 ELSE 1), 0>>
    ELSE NaN

\* a < b, a <= b, a > b as IEEE compares: false when either side is NaN
Lt(a, b) ==
    /\ ~IsNaN(a) /\ ~IsNaN(b)
    /\ IF IsFinite(a) /\ IsFinite(b) THEN a[1] < b[1]
       ELSE IF IsFinite(a) THEN b = PInf
       ELSE IF IsFinite(b) THEN a = NInf
       ELSE a = NInf /\ b = PInf
Le(a, b) == ~IsNaN(a) /\ ~IsNaN(b) /\ (a = b \/ Lt(a, b))
Gt(a, b) == Lt(b, a)

AbsV(a) == IF a[1] < 0 THEN Neg(a) ELSE a

\* the integer square root of n >= 0, by bisection on lo <= r < hi
RECURSIVE ISqrtIn(_, _, _)
ISqrtIn(n, lo, hi) ==
    IF hi - lo <= 1 THEN lo
    ELSE LET mid == (lo + hi) \div 2
         IN  IF mid * mid <= n THEN ISqrtIn(n, mid, hi) ELSE ISqrtIn(n, lo, mid)
ISqrt(n) == ISqrtIn(n, 0, 46341)

\* xp.sqrt: sqrt(n / Scale) * Scale = sqrt(n * Scale); NaN below zero
Sqrt(a) ==
    IF IsNaN(a) THEN NaN
    ELSE IF ~IsFinite(a) THEN (IF a = PInf THEN PInf ELSE NaN)
    ELSE IF a[1] < 0 THEN NaN
    ELSE IF a[1] <= 200000 THEN Fin(ISqrt(a[1] * Scale))
    ELSE Fin(ISqrt(a[1]) * 100)


\* e^(-r) for 0 <= r < Scale units, by the Taylor polynomial of degree 6
ExpFrac(r) ==
    LET h6 == Scale - (r \div 6)
        h5 == Scale - (MulNat(r, h6) \div 5)
        h4 == Scale - (MulNat(r, h5) \div 4)
        h3 == Scale - (MulNat(r, h4) \div 3)
        h2 == Scale - (MulNat(r, h3) \div 2)
    IN  Scale - MulNat(r, h2)

\* e^(-n) * v for an integer n >= 0; 3679 / Scale is e^(-1)
RECURSIVE ExpInt(_, _)
ExpInt(n, v) == IF n = 0 \/ v = 0 THEN v ELSE ExpInt(n - 1, MulNat(v, 3679))

\* xp.exp
RECURSIVE Exp(_)
Exp(a) ==
    IF IsNaN(a) THEN NaN
    ELSE IF a = NInf THEN Zero
    ELSE IF a = PInf THEN PInf
    ELSE IF a[1] > 0 THEN Div(One, Exp(Neg(a)))
    ELSE LET x == -a[1]
         IN  IF x \div Scale > 9 THEN Zero
             ELSE Fin(ExpInt(x \div Scale, ExpFrac(x % Scale)))

\* xp.pi
Pi == Fin(31415)

\* a ** i for an integer i >= 0
RECURSIVE PowInt(_, _)
PowInt(a, i) == IF i = 0 THEN One ELSE Mul(a, PowInt(a, i - 1))

\* a ** (D / 2) for a >= 0 (or NaN)
PowHalf(a, D) ==
    IF D % 2 = 0 THEN PowInt(a, D \div 2)
    ELSE Mul(PowInt(a, D \div 2), Sqrt(a))

\* xp.finfo(float).eps: the spacing of the numbers at 1
eps == Fin(1)

(***************************************************************************)
(* Vectors and matrices: a vector is a sequence of numbers, a matrix the   *)
(* sequence of its rows.  The dimensions that an empty matrix does not     *)
(* show are passed along.                                                   *)
(***************************************************************************)
\* an array holds its entries: the function f, every entry computed once
Array(f) == IF f = f THEN f ELSE f

RECURSIVE SumFrom(_, _)
SumFrom(s, i) == IF i > Len(s) THEN Zero ELSE Add(s[i], SumFrom(s, i + 1))
\* xp.sum of a vector
Sum(s) == SumFrom(s, 1)

Take(s, n) == SubSeq(s, 1, n)
Drop(s, n) == SubSeq(s, n + 1, Len(s))

\* xp.sum(A, axis=0) and xp.sum(A, axis=1) of a matrix with ncols columns
SumAxis0(A, ncols) == Array([j \in 1..ncols |-> Sum([i \in 1..Len(A) |-> A[i][j]])])
SumAxis1(A) == Array([i \in 1..Len(A) |-> Sum(A[i])])

\* xp.dot of two vectors, of an n x k and a k x m matrix, of a vector and a matrix
Dot(u, v) == Sum([i \in 1..Len(u) |-> Mul(u[i], v[i])])
MatMul(A, Bm, k, m) ==
    Array([i \in 1..Len(A) |-> [j \in 1..m |-> Sum([l \in 1..k |-> Mul(A[i][l], Bm[l][j])])]])
VecMat(v, Bm, m) == Array([j \in 1..m |-> Sum([l \in 1..Len(v) |-> Mul(v[l], Bm[l][j])])])

\* xp.transpose of an n x m matrix
Transpose(A, n, m) == Array([j \in 1..m |-> [i \in 1..n |-> A[i][j]]])

\* xp.eye(D), xp.zeros
Eye(D) == Array([i \in 1..D |-> [j \in 1..D |-> IF i = j THEN One ELSE Zero]])
Zeros(n, m) == Array([i \in 1..n |-> [j \in 1..m |-> Zero]])
ZerosVec(n) == Array([i \in 1..n |-> Zero])

\* A - tile(v), A + tile(v): the vector v taken from, added to every row
SubRows(A, v) == Array([i \in 1..Len(A) |-> [j \in 1..Len(v) |-> Sub(A[i][j], v[j])]])
AddRows(A, v) == Array([i \in 1..Len(A) |-> [j \in 1..Len(v) |-> Add(A[i][j], v[j])]])

\* A * s and A / s for a scalar s
ScaleMat(A, s) == Array([i \in 1..Len(A) |-> [j \in 1..Len(A[i]) |-> Mul(A[i][j], s)]])
DivMat(A, s) == Array([i \in 1..Len(A) |-> [j \in 1..Len(A[i]) |-> Div(A[i][j], s)]])
ScaleVec(v, s) == Array([j \in 1..Len(v) |-> Mul(v[j], s)])
DivVec(v, s) == Array([j \in 1..Len(v) |-> Div(v[j], s)])
AddVec(u, v) == Array([j \in 1..Len(u) |-> Add(u[j], v[j])])
SubVec(u, v) == Array([j \in 1..Len(u) |-> Sub(u[j], v[j])])

\* the squared norm of every row: xp.sum(xp.multiply(A, A), axis=1)
RowSqNorms(A) == Array([i \in 1..Len(A) |-> Sum([j \in 1..Len(A[i]) |-> Mul(A[i][j], A[i][j])])])

HasNaN(A) == \E i \in 1..Len(A) : \E j \in 1..Len(A[i]) : ~IsFinite(A[i][j])

\* xp.linalg.solve(Mx, R) for D x D matrices: LAPACK's gesv reports an exactly
\* singular matrix (LinAlgError) and carries NaN through without an error.
\* [ok, x]: ok is false for LinAlgError.
solve(Mx, R, D) ==
    IF HasNaN(Mx) \/ HasNaN(R)
    THEN [ok |-> TRUE, x |-> [i \in 1..D |-> [j \in 1..D |-> NaN]]]
    ELSE IF D = 1
    THEN IF Mx[1][1] = Zero THEN [ok |-> FALSE, x |-> R]
         ELSE [ok |-> TRUE, x |-> <<<<Div(R[1][1], Mx[1][1])>>>>]
    ELSE LET det == Sub(Mul(Mx[1][1], Mx[2][2]), Mul(Mx[1][2], Mx[2][1]))
         IN  IF det = Zero THEN [ok |-> FALSE, x |-> R]
             ELSE [ok |-> TRUE,
                   x |-> [i \in 1..2 |-> [j \in 1..2 |->
                            IF i = 1
                            THEN Div(Sub(Mul(Mx[2][2], R[1][j]), Mul(Mx[1][2], R[2][j])), det)
                            ELSE Div(Sub(Mul(Mx[1][1], R[2][j]), Mul(Mx[2][1], R[1][j])), det)]]]

(***************************************************************************)
(* The engine's numeric steps.  An engine e is the record of the fields of *)
(* an AffineRegistration object; each step below maps e to the fields it   *)
(* assigns.  X_points is X_points_and_landmarks[:N] and so on: the         *)
(* constructor applies one map to a cloud and to its copies.               *)
(***************************************************************************)
X_points(e) == Take(e.X_points_and_landmarks, e.N)
Y_points(e) == Take(e.Y_points_and_landmarks, e.M)
TY_points(e) == Take(e.TY_points_and_landmarks, e.M)

\* initialize_sigma2(X, Y): the mean squared distance of the N * M pairs
initialize_sigma2(X, Y, D) ==
    LET N == Len(X)
        M == Len(Y)
        err == [m \in 1..M |-> Sum([n \in 1..N |->
                   Sum([d \in 1..D |-> LET diff == Sub(X[n][d], Y[m][d])
                                       IN  Mul(diff, diff)])])]
    IN  Div(Sum(err), Num(D * M * N))

\* the squared distances and the Gaussian kernel of expectation()
SqDist(e) ==
    Array([m \in 1..e.M |-> [n \in 1..e.N |->
        Sum([d \in 1..e.D |->
               LET diff == Sub(e.X_points_and_landmarks[n][d],
                               e.TY_points_and_landmarks[m][d])
               IN  Mul(diff, diff)])]])
Kernel(e) ==
    LET dist == SqDist(e)
    IN  Array([m \in 1..e.M |-> [n \in 1..e.N |->
            Exp(Div(Neg(dist[m][n]), Mul(Num(2), e.sigma2)))]])

\* c, the outlier term of the denominator; c * M / N is a division of
\* Python floats when sigma2 is one (ZeroDivisionError for N = 0) and of
\* numpy floats otherwise
OutlierConst(e) ==
    LET c0 == PowHalf(Mul(Mul(Num(2), Pi), e.sigma2), e.D)
        c1 == Div(Mul(c0, e.outliers), Sub(One, e.outliers))
    IN  Div(Mul(c1, Num(e.M)), Num(e.N))
ExpectationRaises(e) == e.N = 0 /\ e.sigma2_py

\* the identity without the factor sigma2 / ss2
LandmarkBlockUnscaled(e, i, j) == IF i = j THEN One ELSE Zero

\* entry (i, j) of P[M:, N:] = xp.identity(K) * sigma2 / ss2
LandmarkBlock(e, i, j) == Div(Mul(IF i = j THEN One ELSE Zero, e.sigma2), e.ss2)

\* the (M+K) x (N+K) matrix P of expectation()
Posterior(e) ==
    LET G == Kernel(e)
        c == OutlierConst(e)
        den0 == Array([n \in 1..e.N |-> Add(Sum([m \in 1..e.M |-> G[m][n]]), c)])
        den == Array([n \in 1..e.N |-> IF den0[n] = Zero THEN eps ELSE den0[n]])
        Pmn == Array([m \in 1..e.M |-> [n \in 1..e.N |-> Div(G[m][n], den[n])]])
    IN  IF e.landmark_guided
        THEN Array([m \in 1..(e.M + e.K) |-> [n \in 1..(e.N + e.K) |->
                 IF m <= e.M /\ n <= e.N THEN Pmn[m][n]
                 ELSE IF m > e.M /\ n > e.N
                 THEN LandmarkBlock(e, m - e.M, n - e.N)
                 ELSE Zero]])
        ELSE Pmn

expectation(e) ==
    LET P == Posterior(e)
        P1 == SumAxis1(P)
    IN  [e EXCEPT !.P = P,
                  !.Pt1 = SumAxis0(P, e.N + e.K),
                  !.P1 = P1,
                  !.Np_with_landmarks = Sum(P1),
                  !.Np_without_landmarks = Sum(Take(P1, e.M)),
                  !.PX = MatMul(P, e.X_points_and_landmarks, e.N + e.K, e.D)]

\* AffineRegistration.update_transform: [ok, e]; ok is false when
\* xp.linalg.solve raises LinAlgError, and B and t are then not assigned
update_transform(e) ==
    LET NK == e.N + e.K
        MK == e.M + e.K
        muX == DivVec(SumAxis0(e.PX, e.D), e.Np_with_landmarks)
        muY == DivVec(SumAxis0(MatMul(Transpose(e.P, MK, NK),
                                      e.Y_points_and_landmarks, MK, e.D), e.D),
                      e.Np_with_landmarks)
        X_hat == SubRows(e.X_points_and_landmarks, muX)
        Y_hat == SubRows(e.Y_points_and_landmarks, muY)
        A == MatMul(MatMul(Transpose(X_hat, NK, e.D), Transpose(e.P, MK, NK), NK, MK),
                    Y_hat, MK, e.D)
        YPY == MatMul(Array([d \in 1..e.D |-> [m \in 1..MK |-> Mul(Y_hat[m][d], e.P1[m])]]),
                      Y_hat, MK, e.D)
        sol == solve(Transpose(YPY, e.D, e.D), Transpose(A, e.D, e.D), e.D)
    IN  IF sol.ok
        THEN [ok |-> TRUE,
              e |-> [e EXCEPT !.B = sol.x,
                              !.t = SubVec(muX, VecMat(muY, sol.x, e.D))]]
        ELSE [ok |-> FALSE, e |-> e]

\* AffineRegistration.transform_point_cloud
transform_point_cloud(e) ==
    [e EXCEPT !.TY_points_and_landmarks =
        AddRows(MatMul(e.Y_points_and_landmarks, e.B, e.D, e.D), e.t)]

\* the quotient of update_variance, before the floor
ComputedVariance(e) ==
    LET xPx == Dot(Take(e.Pt1, e.N), RowSqNorms(X_points(e)))
        yPy == Dot(Take(e.P1, e.M), RowSqNorms(TY_points(e)))
        trPXY == Sum([m \in 1..e.M |-> Dot(e.TY_points_and_landmarks[m], e.PX[m])])
    IN  Div(Add(Sub(xPx, Mul(Num(2), trPXY)), yPy),
            Mul(e.Np_without_landmarks, Num(e.D)))

\* AffineRegistration.update_variance
update_variance(e) ==
    LET qprev == e.sigma2
        computed == ComputedVariance(e)
        floored == Le(computed, Zero)
        sigma2 == IF floored THEN Div(e.tolerance, Num(10)) ELSE computed
    IN  [e EXCEPT !.q = PInf,
                  !.sigma2 = sigma2,
                  !.sigma2_py = floored,
                  !.diff = AbsV(Sub(sigma2, qprev))]

\* AffineRegistration.get_registration_parameters: (B, t), denormalized
get_registration_parameters(e) ==
    IF e.normalize
    THEN LET np == e.normalize_params
             B == DivMat(ScaleMat(e.B, np.X_scale), np.Y_scale)
         IN  [B |-> B,
              t |-> SubVec(AddVec(ScaleVec(e.t, np.X_scale), np.X_mean),
                           VecMat(np.Y_mean, B, e.D))]
    ELSE [B |-> e.B, t |-> e.t]

\* the function that get_transformation_function returns, applied to Y
transform(params, Y, D) == AddRows(MatMul(Y, params.B, D, D), params.t)
get_transformation_function(e, Y) == transform(get_registration_parameters(e), Y, e.D)

\* normalize(data, mode, invert) of calculateNormalizationParams
normalize(data, mean, scale) == DivMat(SubRows(data, mean), scale)
denormalize(data, mean, scale) == AddRows(ScaleMat(data, scale), mean)

\* the transformed cloud mapped back with the mean and scale of the source
get_transformed_points_source_frame(e) ==
    IF e.normalize
    THEN denormalize(TY_points(e), e.normalize_params.Y_mean, e.normalize_params.Y_scale)
    ELSE TY_points(e)

\* EMRegistration.get_transformed_points, get_transformed_landmarks
get_transformed_points(e) ==
    IF e.normalize
    THEN denormalize(TY_points(e), e.normalize_params.X_mean, e.normalize_params.X_scale)
    ELSE TY_points(e)
get_transformed_landmarks(e) ==
    IF e.normalize
    THEN denormalize(Drop(e.TY_points_and_landmarks, e.M),
                     e.normalize_params.X_mean, e.normalize_params.X_scale)
    ELSE Drop(e.TY_points_and_landmarks, e.M)

\* xp.mean(A, axis=0) of a matrix with D columns
MeanAxis0(A, D) == DivVec(SumAxis0(A, D), Num(Len(A)))
\* xp.sqrt(xp.sum(xp.sum(xp.power(A, 2), axis=1)) / len(A))
RmsNorm(A) == Sqrt(Div(Sum(RowSqNorms(A)), Num(Len(A))))

\* EMRegistration.calculateNormalizationParams
calculateNormalizationParams(Xpl, Ypl, D, norm, joint) ==
    IF ~norm
    THEN [X_mean |-> ZerosVec(D), Y_mean |-> ZerosVec(D), X_scale |-> One, Y_scale |-> One]
    ELSE IF joint
    THEN LET mean == MeanAxis0(Xpl \o Ypl, D)
             scale == RmsNorm(SubRows(Xpl, mean) \o SubRows(Ypl, mean))
         IN  [X_mean |-> mean, Y_mean |-> mean, X_scale |-> scale, Y_scale |-> scale]
    ELSE LET X_mean == MeanAxis0(Xpl, D)
             Y_mean == MeanAxis0(Ypl, D)
         IN  [X_mean |-> X_mean, Y_mean |-> Y_mean,
              X_scale |-> RmsNorm(SubRows(Xpl, X_mean)),
              Y_scale |-> RmsNorm(SubRows(Ypl, Y_mean))]

(***************************************************************************)
(* Construction.  The arguments are a record; an optional argument is <<>> *)
(* when it is left out (None) and <<v>> when it is given.                  *)
(***************************************************************************)
None == <<>>
Some(v) == <<v>>
IsNone(o) == o = <<>>
Val(o) == o[1]

ndim(a) == Len(a.shape)
\* xp.asarray(None): a 0-dimensional array
asarray(o) == IF IsNone(o) THEN [shape |-> <<>>, data |-> <<>>] ELSE Val(o)

\* utility.is_positive_semi_definite of a D x D matrix: no eigenvalue below 0
is_positive_semi_definite(Bm, D) ==
    IF D = 1 THEN Le(Zero, Bm[1][1])
    ELSE /\ Le(Zero, Add(Bm[1][1], Bm[2][2]))
         /\ Le(Zero, Sub(Mul(Bm[1][1], Bm[2][2]), Mul(Bm[1][2], Bm[2][1])))

\* the checks of EMRegistration.__init__, in the order of the code:
\* the exception raised, or "" when there is none
BaseValidation(a) ==
    LET X == a.X
        Y == a.Y
        XL == asarray(a.X_landmarks)
        YL == asarray(a.Y_landmarks)
    IN  IF ndim(X) # 2 THEN "ValueError"
        ELSE IF ndim(Y) # 2 THEN "ValueError"
        ELSE IF X.shape[2] # Y.shape[2] THEN "ValueError"
        ELSE IF ~IsNone(a.sigma2) /\ Le(Val(a.sigma2), Zero) THEN "ValueError"
        ELSE IF ~IsNone(a.max_iterations) /\ Lt(Val(a.max_iterations), Zero) THEN "ValueError"
        ELSE IF ~IsNone(a.tolerance) /\ Lt(Val(a.tolerance), Zero) THEN "ValueError"
        ELSE IF ~IsNone(a.outliers)
                /\ (Lt(Val(a.outliers), Zero) \/ Le(One, Val(a.outliers))) THEN "ValueError"
        ELSE IF ~IsNone(a.ss2) /\ Le(Val(a.ss2), Zero) THEN "ValueError"
        \* X_landmarks.shape[0] of a 0-dimensional array
        ELSE IF ndim(XL) = 0 THEN "IndexError"
        ELSE IF XL.shape[1] = 0 THEN "ValueError"
        \* len(Y_landmarks) of a 0-dimensional array
        ELSE IF ndim(YL) = 0 THEN "TypeError"
        ELSE IF YL.shape[1] = 0 THEN "ValueError"
        ELSE IF XL.shape # YL.shape THEN "ValueError"
        \* xp.concatenate of the points and the landmarks
        ELSE IF ndim(XL) # 2 \/ XL.shape[2] # X.shape[2] THEN "ValueError"
        ELSE ""

\* self.landmark_guided, once X_landmarks.shape[0] can be read
LandmarkGuided(XL, YL) == XL.shape[1] # 0 /\ XL.shape = YL.shape

\* the engine EMRegistration.__init__ builds from arguments that pass its checks
BaseEngine(a) ==
    LET XL == asarray(a.X_landmarks)
        YL == asarray(a.Y_landmarks)
        N == a.X.shape[1]
        D == a.X.shape[2]
        M == a.Y.shape[1]
        guided == LandmarkGuided(XL, YL)
        K == IF guided THEN XL.shape[1] ELSE 0
        Xpl == a.X.data \o (IF guided THEN XL.data ELSE <<>>)
        Ypl == a.Y.data \o (IF guided THEN YL.data ELSE <<>>)
        norm == IF IsNone(a.normalize) THEN FALSE ELSE Val(a.normalize)
        joint == IF IsNone(a.normalize_joint) THEN FALSE ELSE Val(a.normalize_joint)
        np == calculateNormalizationParams(Xpl, Ypl, D, norm, joint)
        Xn == normalize(Xpl, np.X_mean, np.X_scale)
        Yn == normalize(Ypl, np.Y_mean, np.Y_scale)
    IN  [X_points_and_landmarks |-> Xn,
         Y_points_and_landmarks |-> Yn,
         TY_points_and_landmarks |-> Yn,
         N |-> N, M |-> M, D |-> D, K |-> K,
         landmark_guided |-> guided,
         ss2 |-> IF IsNone(a.ss2) THEN Fin(Scale \div 10) ELSE Val(a.ss2),
         normalize |-> norm,
         normalize_joint |-> joint,
         normalize_params |-> np,
         max_iterations |-> IF IsNone(a.max_iterations) THEN None
                            ELSE Some(TDiv(Val(a.max_iterations)[1], Scale)),
         force_max_iterations |->
             IF IsNone(a.force_max_iterations) \/ IsNone(a.max_iterations) THEN FALSE
             ELSE Val(a.force_max_iterations),
         iteration |-> 0,
         diff |-> PInf,
         tolerance |-> IF IsNone(a.tolerance) THEN Fin(Scale \div 1000) ELSE Val(a.tolerance),
         outliers |-> IF IsNone(a.outliers) THEN Zero ELSE Val(a.outliers),
         sigma2 |-> IF IsNone(a.sigma2)
                    THEN initialize_sigma2(Take(Xn, N), Take(Yn, M), D)
                    ELSE Val(a.sigma2),
         sigma2_py |-> ~IsNone(a.sigma2),
         q |-> PInf,
         P |-> Zeros(M + K, N + K),
         Pt1 |-> ZerosVec(N + K),
         P1 |-> ZerosVec(M + K),
         PX |-> Zeros(M + K, D),
         Np_with_landmarks |-> Zero,
         Np_without_landmarks |-> Zero,
         B |-> Eye(D),
         t |-> ZerosVec(D)]

\* the checks AffineRegistration.__init__ adds, after EMRegistration.__init__
AffineValidation(a, D) ==
    IF ~IsNone(a.B)
       /\ (\/ ndim(Val(a.B)) # 2
           \/ Val(a.B).shape[1] # D
           \/ Val(a.B).shape[2] # D
           \/ ~is_positive_semi_definite(Val(a.B).data, D)) THEN "ValueError"
    ELSE IF ~IsNone(a.t)
            /\ (\/ ndim(Val(a.t)) # 2
                \/ Val(a.t).shape[1] # 1
                \/ Val(a.t).shape[2] # D) THEN "ValueError"
    ELSE ""

\* AffineRegistration.__init__: [exc, e]
AffineInit(a) ==
    LET exc0 == BaseValidation(a)
    IN  IF exc0 # "" THEN [exc |-> exc0]
        ELSE LET exc1 == AffineValidation(a, a.X.shape[2])
             IN  IF exc1 # "" THEN [exc |-> exc1]
                 ELSE [exc |-> "",
                       e |-> [BaseEngine(a) EXCEPT
                                !.B = IF IsNone(a.B) THEN @ ELSE Val(a.B).data,
                                !.t = IF IsNone(a.t) THEN @ ELSE Val(a.t).data[1]]]

(***************************************************************************)
(* The inputs the model draws from                                          *)
(***************************************************************************)
\* a 2-dimensional array of the rows given as integer coordinates
Points(rows, D) ==
    [shape |-> <<Len(rows), D>>,
     data |-> Array([i \in 1..Len(rows) |-> [d \in 1..D |-> Num(rows[i][d])]])]
\* a 1-dimensional array of n numbers
Flat(n) == [shape |-> <<n>>, data |-> <<>>]

\* the loop of register() is followed for at most MaxIterations iterations
\* when no cap stops it, and register() is called at most MaxRegisterCalls times
MaxIterations == 3
MaxRegisterCalls == 2

\* target, source and landmarks: [X, Y, X_landmarks, Y_landmarks]
Scenes ==
    { \* the source is the target, and so are the landmarks
      [X |-> Points(<<<<0>>, <<2>>>>, 1), Y |-> Points(<<<<0>>, <<2>>>>, 1),
       X_landmarks |-> Some(Points(<<<<0>>, <<2>>>>, 1)),
       Y_landmarks |-> Some(Points(<<<<0>>, <<2>>>>, 1))],
      \* one point each, already aligned, between two aligned landmarks
      [X |-> Points(<<<<0>>>>, 1), Y |-> Points(<<<<0>>>>, 1),
       X_landmarks |-> Some(Points(<<<<-1>>, <<1>>>>, 1)),
       Y_landmarks |-> Some(Points(<<<<-1>>, <<1>>>>, 1))],
      \* a shifted and stretched source
      [X |-> Points(<<<<0>>, <<1>>, <<3>>>>, 1), Y |-> Points(<<<<1>>, <<3>>>>, 1),
       X_landmarks |-> Some(Points(<<<<0>>, <<4>>>>, 1)),
       Y_landmarks |-> Some(Points(<<<<1>>, <<3>>>>, 1))],
      \* a single landmark
      [X |-> Points(<<<<0>>, <<2>>>>, 1), Y |-> Points(<<<<1>>, <<2>>>>, 1),
       X_landmarks |-> Some(Points(<<<<1>>>>, 1)),
       Y_landmarks |-> Some(Points(<<<<1>>>>, 1))],
      \* an empty source cloud
      [X |-> Points(<<<<0>>, <<2>>>>, 1), Y |-> Points(<<>>, 1),
       X_landmarks |-> Some(Points(<<<<0>>, <<2>>>>, 1)),
       Y_landmarks |-> Some(Points(<<<<1>>, <<2>>>>, 1))],
      \* an empty target cloud
      [X |-> Points(<<>>, 1), Y |-> Points(<<<<0>>, <<2>>>>, 1),
       X_landmarks |-> Some(Points(<<<<0>>, <<2>>>>, 1)),
       Y_landmarks |-> Some(Points(<<<<1>>, <<2>>>>, 1))],
      \* two dimensions
      [X |-> Points(<<<<0, 0>>, <<1, 0>>, <<0, 1>>>>, 2),
       Y |-> Points(<<<<1, 0>>, <<2, 0>>, <<1, 1>>>>, 2),
       X_landmarks |-> Some(Points(<<<<1, 1>>>>, 2)),
       Y_landmarks |-> Some(Points(<<<<2, 1>>>>, 2))] }

\* (max_iterations, force_max_iterations)
Caps ==
    { <<None, None>>, <<None, Some(TRUE)>>,
      <<Some(Zero), Some(TRUE)>>,
      <<Some(Num(1)), None>>, <<Some(Num(1)), Some(TRUE)>>,
      <<Some(Num(2)), Some(FALSE)>>, <<Some(Fin(2 * Scale + Scale \div 2)), Some(TRUE)>> }

Sigma2s == { None, Some(Fin(Scale \div 100)) }
Tolerances == { None, Some(Zero), Some(One) }
Outliers == { None, Some(Fin(Scale \div 2)) }
Normalizations == { <<None, None>>, <<Some(TRUE), None>>, <<Some(TRUE), Some(TRUE)>> }

HyperArgs ==
    { [X |-> s.X, Y |-> s.Y, X_landmarks |-> s.X_landmarks, Y_landmarks |-> s.Y_landmarks,
       sigma2 |-> sg, max_iterations |-> cap[1], force_max_iterations |-> cap[2],
       tolerance |-> tol, outliers |-> w, ss2 |-> None,
       normalize |-> nm[1], normalize_joint |-> nm[2], B |-> None, t |-> None] :
      s \in Scenes, sg \in Sigma2s, cap \in Caps, tol \in Tolerances, w \in Outliers,
      nm \in Normalizations }

\* an initial transform B, t and a landmark weight ss2 of the caller
PriorArgs ==
    { [X |-> Points(<<<<0>>, <<1>>, <<3>>>>, 1), Y |-> Points(<<<<1>>, <<3>>>>, 1),
       X_landmarks |-> Some(Points(<<<<0>>, <<4>>>>, 1)),
       Y_landmarks |-> Some(Points(<<<<1>>, <<3>>>>, 1)),
       sigma2 |-> None, max_iterations |-> cap[1], force_max_iterations |-> cap[2],
       tolerance |-> None, outliers |-> None, ss2 |-> Some(One),
       normalize |-> nm[1], normalize_joint |-> nm[2],
       B |-> Some(Points(<<<<2>>>>, 1)), t |-> tr] :
      cap \in { <<None, None>>, <<Some(Zero), None>>, <<Some(Num(2)), Some(TRUE)>> },
      nm \in Normalizations,
      tr \in { None, Some(Points(<<<<1>>>>, 1)) } }

\* the four corners of the unit square of the plane
UnitSquare == Points(<<<<0, 0>>, <<1, 0>>, <<0, 1>>, <<1, 1>>>>, 2)

\* target = source = the unit square, w = 0, one forced iteration, no
\* normalization, the default sigma2: without landmarks, and with the
\* corners as landmarks
UnitSquareArgs(landmarks) ==
    [X |-> UnitSquare, Y |-> UnitSquare,
     X_landmarks |-> landmarks, Y_landmarks |-> landmarks,
     sigma2 |-> None, max_iterations |-> Some(Num(1)), force_max_iterations |-> Some(TRUE),
     tolerance |-> None, outliers |-> Some(Zero), ss2 |-> None,
     normalize |-> Some(FALSE), normalize_joint |-> None, B |-> None, t |-> None]
SquareArgs == { UnitSquareArgs(None), UnitSquareArgs(Some(UnitSquare)) }

RegisterArgs == HyperArgs \cup PriorArgs \cup SquareArgs

\* the arguments of the constructor alone: clouds and landmarks of every
\* shape the checks tell apart, and hyperparameters in and out of range
CtorBase ==
    [X |-> Points(<<<<0>>, <<2>>>>, 1), Y |-> Points(<<<<1>>, <<2>>>>, 1),
     X_landmarks |-> None, Y_landmarks |-> None,
     sigma2 |-> None, max_iterations |-> None, force_max_iterations |-> None,
     tolerance |-> None, outliers |-> None, ss2 |-> None,
     normalize |-> None, normalize_joint |-> None, B |-> None, t |-> None]

CtorClouds == { Points(<<<<0>>, <<2>>>>, 1), Flat(2), Points(<<<<0, 0>>, <<1, 2>>>>, 2) }
CtorLandmarks ==
    { None, Some(Points(<<<<0>>, <<3>>>>, 1)), Some(Points(<<<<1>>>>, 1)),
      Some(Points(<<>>, 1)), Some(Flat(0)), Some(Flat(2)) }

CtorShapeArgs ==
    { [CtorBase EXCEPT !.X = x, !.Y = y, !.X_landmarks = xl, !.Y_landmarks = yl] :
      x \in CtorClouds, y \in CtorClouds, xl \in CtorLandmarks, yl \in CtorLandmarks }

CtorHyperArgs ==
    { [CtorBase EXCEPT !.X_landmarks = l, !.Y_landmarks = l,
                       !.sigma2 = sg, !.max_iterations = mi, !.tolerance = tol,
                       !.outliers = w, !.ss2 = ss, !.B = b, !.t = tr] :
      l \in { None, Some(Points(<<<<0>>, <<3>>>>, 1)) },
      sg \in { None, Some(Zero), Some(One) },
      mi \in { None, Some(Num(-1)), Some(Fin(Scale + Scale \div 2)) },
      tol \in { None, Some(Num(-1)), Some(Zero) },
      w \in { None, Some(Fin(-1)), Some(One) },
      ss \in { None, Some(Zero) },
      b \in { None, Some(Points(<<<<2>>>>, 1)), Some(Points(<<<<-1>>>>, 1)),
              Some(Points(<<<<1, 0>>, <<0, 1>>>>, 2)) },
      tr \in { None, Some(Points(<<<<1>>>>, 1)), Some(Points(<<<<1>>, <<1>>>>, 1)) } }

CtorArgs == CtorShapeArgs \cup CtorHyperArgs

\* the callback argument of register(): the default lambda, a function of
\* the caller, or something that is not callable
Callbacks == { "default", "given", "not callable" }

(***************************************************************************)
(* The state                                                                *)
(***************************************************************************)
VARIABLES
    args,    \* the arguments of the constructor
    eng,     \* the engine: the fields of the object, once it is constructed
    pc,      \* where the program is
    exc,     \* the exception that ended the constructor or register(), or ""
    run,     \* the register() call in progress: its callback, the iteration
             \* counter at its start, the number of register() calls so far,
             \* and whether it began an iteration while diff <= tolerance
    calls,   \* the callback invocations of this register() call: their kwargs
    ret,     \* what the last register() returned
    steps,   \* the steps this register() call has executed, in order
    got      \* the calls of get_transformed_points() and
             \* get_transformed_landmarks() since the last register(): which
             \* one, what it returned, and the engine it was called on

vars == <<args, eng, pc, exc, run, calls, ret, steps, got>>

NoEngine == [none |-> TRUE]
NoReturn == [none |-> TRUE]

InitWith(A) ==
    /\ args \in A
    /\ eng = NoEngine
    /\ pc = "new"
    /\ exc = ""
    /\ run = [callback |-> "default", start |-> 0, n |-> 0, met |-> FALSE]
    /\ calls = <<>>
    /\ steps = <<>>
    /\ got = <<>>
    /\ ret = NoReturn

Init == InitWith(RegisterArgs)

\* AffineRegistration(**args)
Construct ==
    /\ pc = "new"
    /\ LET r == AffineInit(args)
       IN  IF r.exc = ""
           THEN /\ eng' = r.e
                /\ pc' = "idle"
                /\ exc' = ""
           ELSE /\ eng' = NoEngine
                /\ pc' = "failed"
                /\ exc' = r.exc
    /\ UNCHANGED <<args, run, calls, ret, steps, got>>

\* the loop condition without its force_max_iterations disjunct
LoopConditionTolerance(e) ==
    /\ (IF IsNone(e.max_iterations) THEN TRUE ELSE e.iteration < Val(e.max_iterations))
    /\ Gt(e.diff, e.tolerance)

\* the loop condition of register()
LoopCondition(e) ==
    /\ (IF IsNone(e.max_iterations) THEN TRUE ELSE e.iteration < Val(e.max_iterations))
    /\ (IF ~IsNone(e.max_iterations) /\ e.force_max_iterations THEN TRUE
        ELSE Gt(e.diff, e.tolerance))

\* a register() that starts the iteration counter again
RegisterCallResetting ==
    /\ pc \in {"idle", "returned"}
    /\ run.n < MaxRegisterCalls
    /\ \E cb \in Callbacks :
          run' = [callback |-> cb, start |-> 0, n |-> run.n + 1, met |-> FALSE]
    /\ eng' = [transform_point_cloud(eng) EXCEPT !.iteration = 0]
    /\ pc' = "loop"
    /\ calls' = <<>>
    /\ steps' = <<"transform_point_cloud">>
    /\ got' = <<>>
    /\ UNCHANGED <<args, exc, ret>>

\* register(callback): the call, up to the first test of the loop
RegisterCall ==
    /\ pc \in {"idle", "returned"}
    /\ run.n < MaxRegisterCalls
    /\ \E cb \in Callbacks :
          run' = [callback |-> cb, start |-> eng.iteration, n |-> run.n + 1, met |-> FALSE]
    /\ eng' = transform_point_cloud(eng)
    /\ pc' = "loop"
    /\ calls' = <<>>
    /\ steps' = <<"transform_point_cloud">>
    /\ got' = <<>>
    /\ UNCHANGED <<args, exc, ret>>

\* the loop condition holds: iterate() begins
LoopEnter ==
    /\ pc = "loop"
    /\ LoopCondition(eng)
    /\ eng.iteration < MaxIterations
    /\ pc' = "update_hyperparameters"
    /\ run' = [run EXCEPT !.met = @ \/ Le(eng.diff, eng.tolerance)]
    /\ UNCHANGED <<args, eng, exc, calls, ret, steps, got>>

\* the loop condition fails: register() returns
RegisterReturn ==
    /\ pc = "loop"
    /\ ~LoopCondition(eng)
    /\ ret' = [TY |-> get_transformed_points(eng),
               params |-> get_registration_parameters(eng)]
    /\ pc' = "returned"
    /\ UNCHANGED <<args, eng, exc, run, calls, steps, got>>

\* EMRegistration.update_hyperparameters: nothing
UpdateHyperparameters ==
    /\ pc = "update_hyperparameters"
    /\ pc' = "expectation"
    /\ steps' = Append(steps, "update_hyperparameters")
    /\ UNCHANGED <<args, eng, exc, run, calls, ret, got>>

Expectation ==
    /\ pc = "expectation"
    /\ IF ExpectationRaises(eng)
       THEN /\ pc' = "raised"
            /\ exc' = "ZeroDivisionError"
            /\ eng' = eng
       ELSE /\ pc' = "update_transform"
            /\ exc' = exc
            /\ eng' = expectation(eng)
    /\ steps' = Append(steps, "expectation")
    /\ UNCHANGED <<args, run, calls, ret, got>>

UpdateTransform ==
    /\ pc = "update_transform"
    /\ LET r == update_transform(eng)
       IN  IF r.ok
           THEN /\ pc' = "transform_point_cloud"
                /\ exc' = exc
                /\ eng' = r.e
           ELSE /\ pc' = "raised"
                /\ exc' = "LinAlgError"
                /\ eng' = eng
    /\ steps' = Append(steps, "update_transform")
    /\ UNCHANGED <<args, run, calls, ret, got>>

\* a maximization() that goes from update_transform to update_variance
TransformPointCloudSkipped ==
    /\ pc = "transform_point_cloud"
    /\ eng' = update_variance(eng)
    /\ pc' = "increment"
    /\ steps' = Append(steps, "update_variance")
    /\ UNCHANGED <<args, exc, run, calls, ret, got>>

TransformPointCloud ==
    /\ pc = "transform_point_cloud"
    /\ eng' = transform_point_cloud(eng)
    /\ pc' = "update_variance"
    /\ steps' = Append(steps, "transform_point_cloud")
    /\ UNCHANGED <<args, exc, run, calls, ret, got>>

UpdateVariance ==
    /\ pc = "update_variance"
    /\ eng' = update_variance(eng)
    /\ pc' = "increment"
    /\ steps' = Append(steps, "update_variance")
    /\ UNCHANGED <<args, exc, run, calls, ret, got>>

\* self.iteration += 1, the last statement of iterate()
Increment ==
    /\ pc = "increment"
    /\ eng' = [eng EXCEPT !.iteration = @ + 1]
    /\ pc' = "callback"
    /\ steps' = Append(steps, "increment")
    /\ UNCHANGED <<args, exc, run, calls, ret, got>>

\* callable(callback)
callable(cb) == cb # "not callable"

\* kwargs whose Y is the whole transformed cloud, landmarks included
CallbackKwargsWholeCloud(e) ==
    [iteration |-> e.iteration, error |-> e.q, X |-> X_points(e),
     Y |-> e.TY_points_and_landmarks]

\* the kwargs register() hands to the callback
CallbackKwargs(e) ==
    [iteration |-> e.iteration, error |-> e.q, X |-> X_points(e), Y |-> TY_points(e)]

\* if callable(callback): callback(**kwargs)
Callback ==
    /\ pc = "callback"
    /\ calls' = IF callable(run.callback) THEN Append(calls, CallbackKwargs(eng)) ELSE calls
    /\ pc' = "loop"
    /\ UNCHANGED <<args, eng, exc, run, ret, steps, got>>

\* the two getters return arrays of their own (the model has no aliasing);
\* MaxGetterCalls of them are followed between two register() calls
MaxGetterCalls == 2

\* a get_transformed_points() that denormalizes the transformed cloud in place
GetTransformedPointsInPlace ==
    /\ pc \in {"idle", "returned", "raised"}
    /\ Len(got) < MaxGetterCalls
    /\ got' = Append(got, [getter |-> "points", value |-> get_transformed_points(eng),
                            before |-> eng])
    /\ eng' = [eng EXCEPT !.TY_points_and_landmarks =
                   get_transformed_points(eng) \o Drop(@, eng.M)]
    /\ UNCHANGED <<args, pc, exc, run, calls, ret, steps>>

\* get_transformed_points(), called by the user on an engine that is not
\* inside register(): before it, after it returned, after it raised
GetTransformedPoints ==
    /\ pc \in {"idle", "returned", "raised"}
    /\ Len(got) < MaxGetterCalls
    /\ got' = Append(got, [getter |-> "points", value |-> get_transformed_points(eng),
                            before |-> eng])
    /\ UNCHANGED <<args, eng, pc, exc, run, calls, ret, steps>>

\* get_transformed_landmarks(), likewise
GetTransformedLandmarks ==
    /\ pc \in {"idle", "returned", "raised"}
    /\ Len(got) < MaxGetterCalls
    /\ got' = Append(got, [getter |-> "landmarks",
                            value |-> get_transformed_landmarks(eng), before |-> eng])
    /\ UNCHANGED <<args, eng, pc, exc, run, calls, ret, steps>>

Next ==
    \/ Construct
    \/ RegisterCall
    \/ LoopEnter
    \/ RegisterReturn
    \/ UpdateHyperparameters
    \/ Expectation
    \/ UpdateTransform
    \/ TransformPointCloud
    \/ UpdateVariance
    \/ Increment
    \/ Callback
    \/ GetTransformedPoints
    \/ GetTransformedLandmarks

Spec == Init /\ [][Next]_vars

\* the constructor alone, over the arguments of CtorArgs
InitCtor == InitWith(CtorArgs)
NextCtor == Construct
SpecCtor == InitCtor /\ [][NextCtor]_vars

(***************************************************************************)
(* The properties.  Arrays are compared as numpy.testing compares them: a  *)
(* NaN entry equals a NaN entry; an order comparison with NaN is false.     *)
(***************************************************************************)
Forced(e) == ~IsNone(e.max_iterations) /\ e.force_max_iterations
Cap(e) == Val(e.max_iterations)
\* the iterations the register() call in progress has completed
IterationsOfCall == eng.iteration - run.start

\* C1, as stated: a register() call that returns on an engine with a forced
\* cap has run exactly max_iterations iterations.
C1_ForcedRunsCapEveryCall ==
    (pc = "returned" /\ Forced(eng)) => IterationsOfCall = Cap(eng)

\* C1, amended: with a forced cap the loop goes on while the counter is
\* below the cap, whatever diff is, so a register() call that returns leaves
\* the counter at the cap, having run the cap less the counter at its start:
\* max_iterations iterations on a fresh engine, none on a later call.
C1_ForcedRunsToCap ==
    /\ (pc = "loop" /\ Forced(eng) /\ eng.iteration < Cap(eng)) => LoopCondition(eng)
    /\ (pc = "returned" /\ Forced(eng)) =>
          /\ eng.iteration = Cap(eng)
          /\ IterationsOfCall = Cap(eng) - run.start
          /\ (run.n = 1 => IterationsOfCall = Cap(eng))

\* a first call returned after two forced iterations, one of them begun
\* while diff was at or below the tolerance
C1_Witness ==
    /\ pc = "returned" /\ Forced(eng) /\ run.n = 1
    /\ Cap(eng) = 2 /\ IterationsOfCall = 2 /\ run.met

\* C2: when the cap is not forced, no iteration begins while diff <= tolerance,
\* and register() returns with diff <= tolerance or with the counter at the cap.
C2_StopsAtToleranceOrCap ==
    (pc = "returned" /\ ~Forced(eng)) =>
        /\ ~run.met
        /\ \/ Le(eng.diff, eng.tolerance)
           \/ (~IsNone(eng.max_iterations) /\ eng.iteration = Cap(eng))

\* C3: sigma2 > 0 after every update_variance.
C3_VariancePositive ==
    pc = "increment" => Gt(eng.sigma2, Zero)

\* the inputs other than the landmarks are valid
OtherInputsValid(a) ==
    /\ ndim(a.X) = 2 /\ ndim(a.Y) = 2
    /\ a.X.shape[2] = a.Y.shape[2]
    /\ (IsNone(a.sigma2) \/ Gt(Val(a.sigma2), Zero))
    /\ (IsNone(a.max_iterations) \/ Le(Zero, Val(a.max_iterations)))
    /\ (IsNone(a.tolerance) \/ Le(Zero, Val(a.tolerance)))
    /\ (IsNone(a.outliers) \/ (Le(Zero, Val(a.outliers)) /\ Lt(Val(a.outliers), One)))
    /\ (IsNone(a.ss2) \/ Gt(Val(a.ss2), Zero))
    /\ (IsNone(a.B) \/ (/\ Val(a.B).shape = <<a.X.shape[2], a.X.shape[2]>>
                         /\ is_positive_semi_definite(Val(a.B).data, a.X.shape[2])))
    /\ (IsNone(a.t) \/ Val(a.t).shape = <<1, a.X.shape[2]>>)

\* C4: without landmark arrays, and with the other inputs valid, construction
\* succeeds: landmark_guided is false, K = 0, and the augmented clouds have
\* N and M rows.
C4_AbsentLandmarksUnguided ==
    (pc # "new" /\ IsNone(args.X_landmarks) /\ IsNone(args.Y_landmarks)
       /\ OtherInputsValid(args)) =>
        /\ pc = "idle"
        /\ ~eng.landmark_guided
        /\ eng.K = 0
        /\ Len(eng.X_points_and_landmarks) = eng.N
        /\ Len(eng.Y_points_and_landmarks) = eng.M

\* one of the inputs is out of the range the constructor documents
SomeInputInvalid(a) ==
    \/ ndim(a.X) # 2
    \/ ndim(a.Y) # 2
    \/ a.X.shape[2] # a.Y.shape[2]
    \/ (~IsNone(a.sigma2) /\ Le(Val(a.sigma2), Zero))
    \/ (~IsNone(a.max_iterations) /\ Lt(Val(a.max_iterations), Zero))
    \/ (~IsNone(a.tolerance) /\ Lt(Val(a.tolerance), Zero))
    \/ (~IsNone(a.outliers) /\ (Lt(Val(a.outliers), Zero) \/ Le(One, Val(a.outliers))))
    \/ (~IsNone(a.ss2) /\ Le(Val(a.ss2), Zero))
    \/ (~IsNone(a.X_landmarks) /\ Val(a.X_landmarks).shape[1] = 0)
    \/ (~IsNone(a.Y_landmarks) /\ Val(a.Y_landmarks).shape[1] = 0)
    \/ (~IsNone(a.X_landmarks) /\ ~IsNone(a.Y_landmarks)
          /\ Val(a.X_landmarks).shape # Val(a.Y_landmarks).shape)
    \/ (~IsNone(a.B) /\ ~(/\ Val(a.B).shape = <<a.X.shape[2], a.X.shape[2]>>
                          /\ is_positive_semi_definite(Val(a.B).data, a.X.shape[2])))
    \/ (~IsNone(a.t) /\ Val(a.t).shape # <<1, a.X.shape[2]>>)

\* C5: construction with an input out of range fails with ValueError and
\* leaves no engine.
C5_InvalidInputsRaiseValueError ==
    (pc # "new" /\ SomeInputInvalid(args)) =>
        (pc = "failed" /\ exc = "ValueError" /\ eng = NoEngine)

\* C6: after expectation every entry of P is >= 0 and every column of the
\* block of the points sums to at most 1.
C6_PosteriorSubstochastic ==
    pc = "update_transform" =>
        /\ \A m \in 1..Len(eng.P) : \A n \in 1..Len(eng.P[m]) : Le(Zero, eng.P[m][n])
        /\ \A n \in 1..eng.N : Le(Sum([m \in 1..eng.M |-> eng.P[m][n]]), One)

\* C7: with K > 0, after expectation P[M:, N:] is (sigma2 / ss2) times the
\* identity, for the sigma2 that expectation used, and P[:M, N:] and
\* P[M:, :N] are zero.
C7_LandmarkBlockScaledIdentity ==
    (pc = "update_transform" /\ eng.K > 0) =>
        /\ \A i \in 1..eng.K : \A j \in 1..eng.K :
              eng.P[eng.M + i][eng.N + j] =
                  Mul(Div(eng.sigma2, eng.ss2), IF i = j THEN One ELSE Zero)
        /\ \A m \in 1..eng.M : \A j \in 1..eng.K : eng.P[m][eng.N + j] = Zero
        /\ \A i \in 1..eng.K : \A n \in 1..eng.N : eng.P[eng.M + i][n] = Zero

\* the expectation of a second iteration, on points and two landmarks, with
\* a variance that update_variance computed
C7_Witness ==
    /\ pc = "update_transform" /\ eng.K = 2 /\ eng.M > 0 /\ eng.N > 0
    /\ eng.iteration = 1 /\ Gt(eng.sigma2, Zero) /\ eng.sigma2 # eng.ss2
    /\ eng.P[eng.M + 1][eng.N + 1] # Zero

\* C8: after expectation neither Np_with_landmarks nor Np_without_landmarks
\* is zero.
C8_DivisorsNonzero ==
    pc = "update_transform" =>
        (eng.Np_with_landmarks # Zero /\ eng.Np_without_landmarks # Zero)

\* C9: in the first register() call of an engine, with a callable callback,
\* the callback has been invoked once for each completed iteration, after
\* the increment of the counter; the i-th invocation has iteration = i and
\* as Y the first M rows of the transformed cloud of that moment.
C9_CallbackPerIteration ==
    (run.n = 1 /\ callable(run.callback)) =>
        /\ Len(calls) = IF pc = "callback" THEN eng.iteration - 1 ELSE eng.iteration
        /\ \A i \in 1..Len(calls) :
              /\ calls[i].iteration = i
              /\ Len(calls[i].Y) = eng.M
        /\ (pc = "loop" /\ Len(calls) > 0) =>
              calls[Len(calls)].Y = Take(eng.TY_points_and_landmarks, eng.M)

\* a first call with a callback of the caller returned after two iterations
\* on a cloud with landmarks
C9_Witness ==
    /\ pc = "returned" /\ run.n = 1 /\ run.callback = "given"
    /\ Len(calls) = 2 /\ eng.iteration = 2 /\ eng.M = 2 /\ eng.K = 2

\* the arithmetic rounds: two computations of one number agree to within
\* RoundTol units of 1 / Scale
RoundTol == 5
CloseTo(a, b) ==
    IF IsFinite(a) /\ IsFinite(b) THEN Abs(a[1] - b[1]) <= RoundTol ELSE a = b
AllClose(A, Bm) ==
    /\ Len(A) = Len(Bm)
    /\ \A i \in 1..Len(A) :
          /\ Len(A[i]) = Len(Bm[i])
          /\ \A j \in 1..Len(A[i]) : CloseTo(A[i][j], Bm[i][j])

\* the engine is between update_transform and transform_point_cloud: B and t
\* are new, the transformed cloud is not yet; no caller sees the engine there
InsideMaximization == pc = "transform_point_cloud"

\* C10: with normalization, once register() has been called,
\* get_transformed_points() is TY[:M] * X_scale + X_mean, and it is, to
\* within rounding, what the function of get_transformation_function() makes
\* of the source points as they were given.
C10_TransformedPointsInTargetFrame ==
    (run.n >= 1 /\ eng.normalize /\ ~InsideMaximization) =>
        /\ get_transformed_points(eng) =
              AddRows(ScaleMat(Take(eng.TY_points_and_landmarks, eng.M),
                               eng.normalize_params.X_scale),
                      eng.normalize_params.X_mean)
        /\ AllClose(get_transformed_points(eng),
                    get_transformation_function(eng, args.Y.data))

\* register() returned after two iterations on a normalized engine whose
\* clouds differ in mean and in scale, with a finite transform
C10_Witness ==
    /\ pc = "returned" /\ eng.normalize /\ eng.iteration = 2 /\ eng.M = 2
    /\ eng.normalize_params.X_mean # eng.normalize_params.Y_mean
    /\ eng.normalize_params.X_scale # eng.normalize_params.Y_scale
    /\ ~HasNaN(eng.B) /\ ~HasNaN(ret.TY)
    /\ ret.TY # args.Y.data

\* C11: for target = source = the unit square, w = 0, max_iterations = 1,
\* forced, no normalization and the default sigma2, register() runs its one
\* iteration and leaves B the identity and t the zero vector.
C11_AlignedSquareFixedPoint ==
    (args = UnitSquareArgs(None) /\ pc # "new") =>
        /\ pc # "failed"
        /\ (pc = "returned" =>
              /\ eng.iteration = 1
              /\ eng.B = Eye(2)
              /\ eng.t = ZerosVec(2))

\* C12: get_transformed_points() and get_transformed_landmarks() leave every
\* field of the engine as it was, before, between and after register()
\* calls; with no register() in between, two calls of one getter return the
\* same array, of M rows for the points and of K rows for the landmarks.
C12_GettersReadOnly ==
    \A i \in 1..Len(got) :
        /\ got[i].before = eng
        /\ Len(got[i].value) = IF got[i].getter = "points" THEN eng.M ELSE eng.K
        /\ \A j \in 1..Len(got) :
              got[j].getter = got[i].getter => got[j].value = got[i].value

\* after a register() call of two iterations on a normalized engine, the
\* points were asked for twice
C12_Witness ==
    /\ pc = "returned" /\ eng.iteration = 2 /\ eng.normalize /\ eng.M = 2
    /\ Len(got) = 2 /\ got[1].getter = "points" /\ got[2].getter = "points"
    /\ got[2].value # Take(eng.TY_points_and_landmarks, eng.M)

\* the steps of iterate(), in the order of the claim
IterationSteps ==
    << "update_hyperparameters", "expectation", "update_transform",
       "transform_point_cloud", "update_variance", "increment" >>
InsideRegister == pc \notin {"new", "failed", "idle"}

\* C13: register() first applies the current transform once, and then every
\* iteration takes its steps in the order update_hyperparameters,
\* expectation, update_transform, transform_point_cloud, update_variance,
\* increment; an iteration begins only when the one before is complete.
C13_StepOrder ==
    InsideRegister =>
        /\ Len(steps) >= 1
        /\ steps[1] = "transform_point_cloud"
        /\ \A i \in 2..Len(steps) :
              steps[i] = IterationSteps[((i - 2) % Len(IterationSteps)) + 1]
        /\ (pc \in {"loop", "returned"} =>
              Len(steps) = 1 + Len(IterationSteps) * IterationsOfCall)
        /\ (Len(steps) = 1 =>
              eng.TY_points_and_landmarks =
                  AddRows(MatMul(eng.Y_points_and_landmarks, eng.B, eng.D, eng.D), eng.t))

\* a register() call on an engine built with a transform B, t of the caller
\* returned after two iterations
C13_Witness ==
    /\ pc = "returned" /\ ~IsNone(args.B) /\ ~IsNone(args.t)
    /\ IterationsOfCall = 2 /\ Len(steps) = 13

\* the iteration counter of an engine, 0 while there is none
CounterOf(e) == IF e = NoEngine THEN 0 ELSE e.iteration
\* the iterations this register() call has executed to their end
IncrementsOfCall == Cardinality({ i \in 1..Len(steps) : steps[i] = "increment" })

\* C14: the iteration counter is 0 after construction, goes up by exactly 1
\* with each executed iteration and is changed by nothing else, a further
\* register() call included; so with a cap it stays within 0..max_iterations,
\* and all register() calls together run at most max_iterations iterations.
C14_CounterNeverReset ==
    /\ [](/\ (pc = "idle" /\ run.n = 0) => eng.iteration = 0
          /\ InsideRegister => eng.iteration = run.start + IncrementsOfCall
          /\ (eng # NoEngine /\ ~IsNone(eng.max_iterations)) =>
                (0 <= eng.iteration /\ eng.iteration <= Cap(eng)))
    /\ [][/\ CounterOf(eng') \in {CounterOf(eng), CounterOf(eng) + 1}
          /\ CounterOf(eng') # CounterOf(eng) => pc = "increment"
          /\ pc = "increment" => CounterOf(eng') = CounterOf(eng) + 1]_vars

\* a second register() call on an engine whose counter the first call left
\* at the cap of 2 returned without an iteration
C14_Witness ==
    /\ pc = "returned" /\ run.n = 2 /\ ~IsNone(eng.max_iterations)
    /\ Cap(eng) = 2 /\ run.start = 2 /\ eng.iteration = 2 /\ IncrementsOfCall = 0

=============================================================================
